---- MODULE Spec2Model ----
(***************************************************************************)
(* Team Heat Scheduler: generate_schedule of main.py.                      *)
(*                                                                         *)
(* One call of generate_schedule is modelled as the steps                  *)
(*   start --Build--> built --Solve*--> solved --Return*--> done           *)
(* Build draws the objective weights, the Solve* actions are the outcomes  *)
(* prob.solve(PULP_CBC_CMD(timeLimit=...)) can hand back, and the Return*  *)
(* actions are lines 80-97 (the status test and the schedule extraction).  *)
(*                                                                         *)
(* Weights are integers in 0..WeightScale-1, standing for the floats       *)
(* k/WeightScale of [0,1).  A variable's value is a set: {} is PuLP's      *)
(* varValue None (nothing assigned), {v} is the value v.                   *)
(***************************************************************************)
EXTENDS Integers, FiniteSets, Sequences, TLC

VARIABLES num_flights, num_boats, num_teams, num_heats,
          seed, random_weights, penalty_w,
          stop, status, xval, wval, result, pc

vars == <<num_flights, num_boats, num_teams, num_heats,
          seed, random_weights, penalty_w, stop, status, xval, wval, result, pc>>

params == <<num_flights, num_boats, num_teams, num_heats>>

\* ----------------------------------------------------------------- bounds
MaxFlights == 2
MaxBoats == 2
MaxTeams == 3
MaxHeats == 2
\* cap on the number of assignment variables T*F*H*B of one call
MaxVars == 16
MaxSeed == 2
WeightScale == 3
\* cap on T*F*H*B of the raised configurations C9 compares with
MaxRaisedVars == 18

\* ---------------------------------------------------------- index space
teams(T) == 0 .. (T - 1)
flights(F) == 0 .. (F - 1)
heats(H) == 0 .. (H - 1)
boats(B) == 0 .. (B - 1)
team_pairs(T) == {p \in teams(T) \X teams(T) : p[1] < p[2]}

XIdx(F, B, T, H) == teams(T) \X flights(F) \X heats(H) \X boats(B)
WIdx(F, T, H) == team_pairs(T) \X flights(F) \X heats(H)

RECURSIVE lpSum(_, _)
lpSum(v, S) ==
    IF S = {} THEN 0
    ELSE LET e == CHOOSE e \in S : TRUE IN v[e] + lpSum(v, S \ {e})

\* ------------------------------------------------------- random weights
\* random.random(): the k-th draw (k = 0, 1, ...) of the generator whose
\* state at the call is sd
Random(sd, k) == ((sd + 1) * (k * k + k + 1) + (k \div 2)) % WeightScale

\* position of the draw for (t, f, h, b) in the nested loops of lines 26-30
DrawIndex(i, F, B, H) == ((i[1] * F + i[2]) * H + i[3]) * B + i[4]

\* position of pair p in itertools.combinations(teams, 2)
PairIndex(p, T) ==
    Cardinality({q \in team_pairs(T) :
                    q[1] < p[1] \/ (q[1] = p[1] /\ q[2] < p[2])})

\* ---------------------------------------------------------- constraints
\* occ(c, r, s): sum over the boats of x[t][f][h][b]
Occ(x, t, f, h, B) == lpSum([b \in boats(B) |-> x[<<t, f, h, b>>]], boats(B))

\* variant: the bound of constraint 1 written as 2
SlotExclusivityLoose(x, F, B, T, H) ==
    \A f \in flights(F) : \A h \in heats(H) : \A b \in boats(B) :
        lpSum([t \in teams(T) |-> x[<<t, f, h, b>>]], teams(T)) <= 2

\* variant: constraint 1 written with == (every boat must sail in every heat)
SlotExclusivityExact(x, F, B, T, H) ==
    \A f \in flights(F) : \A h \in heats(H) : \A b \in boats(B) :
        lpSum([t \in teams(T) |-> x[<<t, f, h, b>>]], teams(T)) = 1

\* 1. Each boat in each flight and heat is assigned to at most one team
SlotExclusivity(x, F, B, T, H) ==
    \A f \in flights(F) : \A h \in heats(H) : \A b \in boats(B) :
        lpSum([t \in teams(T) |-> x[<<t, f, h, b>>]], teams(T)) <= 1

\* 2. Each team in each flight and heat is assigned to at most one boat
TeamExclusivity(x, F, B, T, H) ==
    \A t \in teams(T) : \A f \in flights(F) : \A h \in heats(H) :
        Occ(x, t, f, h, B) <= 1

\* variant: constraint 3 without its lower bound W3
PairingLinkageNoLower(x, w, F, B, T, H) ==
    \A p \in team_pairs(T) : \A f \in flights(F) : \A h \in heats(H) :
        /\ w[<<p, f, h>>] <= Occ(x, p[1], f, h, B)
        /\ w[<<p, f, h>>] <= Occ(x, p[2], f, h, B)

\* 3. w indicates that two teams are racing together (W1, W2, W3)
PairingLinkage(x, w, F, B, T, H) ==
    \A p \in team_pairs(T) : \A f \in flights(F) : \A h \in heats(H) :
        /\ w[<<p, f, h>>] <= Occ(x, p[1], f, h, B)
        /\ w[<<p, f, h>>] <= Occ(x, p[2], f, h, B)
        /\ w[<<p, f, h>>] >= Occ(x, p[1], f, h, B) + Occ(x, p[2], f, h, B) - 1

\* variant: constraint 4 as its comment words it, "at least once per flight"
ParticipationAtLeast(x, F, B, T, H) ==
    \A t \in teams(T) : \A f \in flights(F) :
        lpSum([hb \in heats(H) \X boats(B) |-> x[<<t, f, hb[1], hb[2]>>]],
              heats(H) \X boats(B)) >= 1

\* variant: constraint 4 summed over the boats of each heat, not of the flight
ParticipationPerHeat(x, F, B, T, H) ==
    \A t \in teams(T) : \A f \in flights(F) : \A h \in heats(H) :
        Occ(x, t, f, h, B) = 1

\* 4. Every team sails once per flight
Participation(x, F, B, T, H) ==
    \A t \in teams(T) : \A f \in flights(F) :
        lpSum([hb \in heats(H) \X boats(B) |-> x[<<t, f, hb[1], hb[2]>>]],
              heats(H) \X boats(B)) = 1

\* the binary assignments of x that satisfy the constraints on x alone
FeasibleX(F, B, T, H) ==
    {x \in [XIdx(F, B, T, H) -> {0, 1}] :
        /\ Participation(x, F, B, T, H)
        /\ SlotExclusivity(x, F, B, T, H)
        /\ TeamExclusivity(x, F, B, T, H)}

FeasibleW(x, F, B, T, H) ==
    {w \in [WIdx(F, T, H) -> {0, 1}] : PairingLinkage(x, w, F, B, T, H)}

\* the constraint set built by lines 45-72 has a satisfying assignment
Satisfiable(F, B, T, H) ==
    \E x \in [XIdx(F, B, T, H) -> {0, 1}] :
        /\ Participation(x, F, B, T, H)
        /\ SlotExclusivity(x, F, B, T, H)
        /\ TeamExclusivity(x, F, B, T, H)
        /\ \E w \in [WIdx(F, T, H) -> {0, 1}] : PairingLinkage(x, w, F, B, T, H)

\* ------------------------------------------------------------ objective
\* penalty_w[(t1,t2)] * (1 - lpSum(w[(t1,t2)][f][h] for f for h))
PenaltyTerm(pw, w, p, F, H) ==
    pw[p] * (1 - lpSum([fh \in flights(F) \X heats(H) |-> w[<<p, fh[1], fh[2]>>]],
                       flights(F) \X heats(H)))

Objective(rw, pw, x, w, F, B, T, H) ==
    lpSum([i \in XIdx(F, B, T, H) |-> rw[i] * x[i]], XIdx(F, B, T, H))
    + lpSum([p \in team_pairs(T) |-> PenaltyTerm(pw, w, p, F, H)], team_pairs(T))

\* ----------------------------------------------------------- extraction
\* lines 89-93: for b, for t: if value(x[t][f][h][b]) == 1: heat_schedule[b] = t + 1
\* (a later team overwrites an earlier one)
Max(S) == CHOOSE m \in S : \A n \in S : n <= m

\* variant: the test of line 92 reads the team's value on any boat of the heat
HeatScheduleAnyBoat(xv, f, h, B, T) ==
    LET on(b) == {t \in teams(T) : \E b2 \in boats(B) : xv[<<t, f, h, b2>>] = {1}}
    IN  [b \in {b \in boats(B) : on(b) # {}} |-> Max(on(b)) + 1]

\* variant: line 93 stores t, not t + 1
HeatScheduleZeroBased(xv, f, h, B, T) ==
    LET on(b) == {t \in teams(T) : xv[<<t, f, h, b>>] = {1}}
    IN  [b \in {b \in boats(B) : on(b) # {}} |-> Max(on(b))]

HeatSchedule(xv, f, h, B, T) ==
    LET on(b) == {t \in teams(T) : xv[<<t, f, h, b>>] = {1}}
    IN  [b \in {b \in boats(B) : on(b) # {}} |-> Max(on(b)) + 1]

ExtractSchedule(xv, F, B, T, H) ==
    [f \in 1 .. F |-> [h \in 1 .. H |-> HeatSchedule(xv, f - 1, h - 1, B, T)]]

NoValues(S) == [i \in S |-> {}]
Values(v) == [i \in DOMAIN v |-> {v[i]}]
NoResult == [none |-> TRUE, schedule |-> <<>>]

\* ----------------------------------------------------------------- state
Init ==
    /\ num_flights \in 1 .. MaxFlights
    /\ num_boats \in 1 .. MaxBoats
    /\ num_teams \in 1 .. MaxTeams
    /\ num_heats \in 1 .. MaxHeats
    /\ num_teams * num_flights * num_heats * num_boats <= MaxVars
    /\ seed \in 0 .. MaxSeed
    /\ random_weights = <<>>
    /\ penalty_w = <<>>
    /\ stop = "none"
    /\ status = "Not Solved"
    /\ xval = <<>>
    /\ wval = <<>>
    /\ result = NoResult
    /\ pc = "start"

\* lines 11-72: indices, variables, weights, objective, constraints
Build ==
    /\ pc = "start"
    /\ random_weights' =
         [i \in XIdx(num_flights, num_boats, num_teams, num_heats) |->
            Random(seed, DrawIndex(i, num_flights, num_boats, num_heats))]
    /\ penalty_w' =
         [p \in team_pairs(num_teams) |->
            Random(seed, num_teams * num_flights * num_heats * num_boats
                         + PairIndex(p, num_teams))]
    /\ xval' = NoValues(XIdx(num_flights, num_boats, num_teams, num_heats))
    /\ wval' = NoValues(WIdx(num_flights, num_teams, num_heats))
    /\ pc' = "built"
    /\ UNCHANGED <<params, seed, stop, status, result>>

\* The outcomes of prob.solve(solver), line 77.  CBC either proves an optimum,
\* proves there is none, or runs into timeLimit, with or without an
\* integer-feasible incumbent; PuLP turns what CBC reports into the status:
\*   optimum, or stopped with an incumbent  -> 'Optimal'
\*   stopped without an incumbent           -> 'Not Solved'
\*   infeasible                             -> 'Infeasible' or 'Unbounded'
\*   a report PuLP does not recognise       -> 'Undefined'
FeasibleSolutions(F, B, T, H) ==
    UNION {{<<x, w>> : w \in FeasibleW(x, F, B, T, H)} : x \in FeasibleX(F, B, T, H)}

Solved(st, stat, xv, wv) ==
    /\ stop' = st
    /\ status' = stat
    /\ xval' = xv
    /\ wval' = wv
    /\ pc' = "solved"
    /\ UNCHANGED <<params, seed, random_weights, penalty_w, result>>

\* the solutions of S with the least objective value
Minimizers(S, rw, pw, F, B, T, H) ==
    {s \in S : \A o \in S : Objective(rw, pw, s[1], s[2], F, B, T, H)
                              <= Objective(rw, pw, o[1], o[2], F, B, T, H)}

SolveOptimal ==
    /\ pc = "built"
    /\ \E S \in {FeasibleSolutions(num_flights, num_boats, num_teams, num_heats)} :
       \E s \in Minimizers(S, random_weights, penalty_w,
                           num_flights, num_boats, num_teams, num_heats) :
          Solved("optimal", "Optimal", Values(s[1]), Values(s[2]))

SolveTimeLimitIncumbent ==
    /\ pc = "built"
    /\ \E s \in FeasibleSolutions(num_flights, num_boats, num_teams, num_heats) :
          Solved("incumbent", "Optimal", Values(s[1]), Values(s[2]))

\* timeLimit ran out before any integer-feasible assignment was found, which
\* can happen whatever the model is; no variable is given a value (varValue
\* stays None), so no test "value == 1" of line 92 succeeds
SolveTimeLimitNoIncumbent ==
    /\ pc = "built"
    /\ Solved("no incumbent", "Not Solved", xval, wval)

SolveInfeasible ==
    /\ pc = "built"
    /\ ~Satisfiable(num_flights, num_boats, num_teams, num_heats)
    /\ \E stat \in {"Infeasible", "Unbounded"} :
          Solved("infeasible", stat, xval, wval)

SolveUndefined ==
    /\ pc = "built"
    /\ Solved("unknown", "Undefined", xval, wval)

\* lines 80-82
ReturnNone ==
    /\ pc = "solved"
    /\ status \in {"Infeasible", "Unbounded", "Undefined"}
    /\ result' = NoResult
    /\ pc' = "done"
    /\ UNCHANGED <<params, seed, random_weights, penalty_w, stop, status, xval, wval>>

\* lines 84-97
ReturnSchedule ==
    /\ pc = "solved"
    /\ status \notin {"Infeasible", "Unbounded", "Undefined"}
    /\ result' = [none |-> FALSE,
                  schedule |-> ExtractSchedule(xval, num_flights, num_boats,
                                               num_teams, num_heats)]
    /\ pc' = "done"
    /\ UNCHANGED <<params, seed, random_weights, penalty_w, stop, status, xval, wval>>

Next ==
    \/ Build
    \/ SolveOptimal
    \/ SolveTimeLimitIncumbent
    \/ SolveTimeLimitNoIncumbent
    \/ SolveInfeasible
    \/ SolveUndefined
    \/ ReturnNone
    \/ ReturnSchedule

Spec == Init /\ [][Next]_vars

\* ---------------------------------------------------------------- claims
Returned == pc = "done" /\ ~result.none
HasSolution == stop \in {"optimal", "incumbent"}
Heat(r, s) == result.schedule[r + 1][s + 1]
Val(v) == CHOOSE e \in v : TRUE
Together(p, r, s) ==
    /\ \E b \in boats(num_boats) : xval[<<p[1], r, s, b>>] = {1}
    /\ \E b \in boats(num_boats) : xval[<<p[2], r, s, b>>] = {1}

C2_SlotNeverDoubleBooked ==
    Returned =>
        \A r \in flights(num_flights) : \A s \in heats(num_heats) :
          \A b \in boats(num_boats) :
            LET on == {c \in teams(num_teams) : xval[<<c, r, s, b>>] = {1}}
            IN  /\ Cardinality(on) <= 1
                /\ b \in DOMAIN Heat(r, s) => on = {Heat(r, s)[b] - 1}

C2_Witness ==
    /\ Returned
    /\ HasSolution
    /\ \E r \in flights(num_flights) : \E s \in heats(num_heats) :
          Cardinality(DOMAIN Heat(r, s)) >= 2

\* C3: in every returned schedule no competitor holds two slots of one
\* (round, subRound): at most one assignment variable of (c, r, s) is 1 and
\* c+1 is the value of at most one key of schedule[r][s].
C3_OneSlotPerHeat ==
    Returned =>
        \A c \in teams(num_teams) : \A r \in flights(num_flights) :
          \A s \in heats(num_heats) :
            /\ Cardinality({b \in boats(num_boats) : xval[<<c, r, s, b>>] = {1}}) <= 1
            /\ Cardinality({b \in DOMAIN Heat(r, s) : Heat(r, s)[b] = c + 1}) <= 1

C3_Witness ==
    /\ Returned
    /\ stop = "incumbent"
    /\ num_boats >= 2
    /\ \E r \in flights(num_flights) : \E s \in heats(num_heats) :
          Cardinality(DOMAIN Heat(r, s)) >= 2

\* C4: when numSlots * numSubRounds < numCompetitors, every call returns None.
C4_OverCapacityReturnsNone ==
    (pc = "done" /\ num_boats * num_heats < num_teams) => result.none

\* C5: whenever the solve ends without an integer-feasible assignment
\* (Infeasible, Unbounded, Undefined, or the time limit before any incumbent),
\* generate_schedule returns None.
C5_NoSolutionReturnsNone ==
    (pc = "done" /\ ~HasSolution) => result.none

\* C6: in every solution the solver hands back, w[(c1,c2),r,s] is 1 exactly
\* when both c1 and c2 hold a slot of (r, s), and 0 otherwise.
C6_PairingIndicatorIsAnd ==
    (pc \in {"solved", "done"} /\ HasSolution) =>
        \A i \in WIdx(num_flights, num_teams, num_heats) :
            wval[i] = IF Together(i[1], i[2], i[3]) THEN {1} ELSE {0}

C6_Witness ==
    /\ pc = "solved"
    /\ stop = "incumbent"
    /\ \E i \in WIdx(num_flights, num_teams, num_heats) : wval[i] = {1}
    /\ \E i \in WIdx(num_flights, num_teams, num_heats) : wval[i] = {0}

\* C7: in every solution the fairness-penalty term of a pair is pairPenalty
\* when the pair never shares a subRound and 0 as soon as it shares one; it
\* is never negative.
C7_PenaltyBoundedOnceSatisfied ==
    (pc \in {"solved", "done"} /\ HasSolution) =>
        \A p \in team_pairs(num_teams) :
            PenaltyTerm(penalty_w, [i \in DOMAIN wval |-> Val(wval[i])], p,
                        num_flights, num_heats)
              = IF \E r \in flights(num_flights) : \E s \in heats(num_heats) :
                      Together(p, r, s)
                THEN 0 ELSE penalty_w[p]

\* C8: a returned schedule has numRounds rounds of numSubRounds mappings, and
\* schedule[r][s] has key slot with value c+1 (in 1..numCompetitors) exactly
\* when x[c,r,s,slot] = 1; a slot nobody holds is absent.
C8_ExtractorFaithful ==
    Returned =>
        /\ Len(result.schedule) = num_flights
        /\ \A r \in flights(num_flights) :
              /\ Len(result.schedule[r + 1]) = num_heats
              /\ \A s \in heats(num_heats) :
                    /\ DOMAIN Heat(r, s) \subseteq boats(num_boats)
                    /\ \A b \in DOMAIN Heat(r, s) : Heat(r, s)[b] \in 1 .. num_teams
                    /\ \A b \in boats(num_boats) : \A c \in teams(num_teams) :
                          (b \in DOMAIN Heat(r, s) /\ Heat(r, s)[b] = c + 1)
                            <=> xval[<<c, r, s, b>>] = {1}

C8_Witness ==
    /\ Returned
    /\ HasSolution
    /\ num_flights >= 2
    /\ \E r \in flights(num_flights) : \E s \in heats(num_heats) :
          /\ DOMAIN Heat(r, s) # {}
          /\ DOMAIN Heat(r, s) # boats(num_boats)

\* C9: if the constraint set built for (numRounds, numSlots, numCompetitors,
\* numSubRounds) is satisfiable, the one built with numSlots raised, and the
\* one built with numSubRounds raised, the rest held fixed, is satisfiable too
\* (one step of the raise; any amount is that step repeated).
Raisable(F, B, T, H) == T * F * H * B <= MaxRaisedVars

C9_MonotonicFeasibility ==
    (pc = "built" /\ Satisfiable(num_flights, num_boats, num_teams, num_heats)) =>
        /\ Raisable(num_flights, num_boats + 1, num_teams, num_heats)
             => Satisfiable(num_flights, num_boats + 1, num_teams, num_heats)
        /\ Raisable(num_flights, num_boats, num_teams, num_heats + 1)
             => Satisfiable(num_flights, num_boats, num_teams, num_heats + 1)

C9_Witness ==
    /\ pc = "built"
    /\ num_teams >= 2
    /\ num_teams = num_boats * num_heats
    /\ Satisfiable(num_flights, num_boats, num_teams, num_heats)
    /\ Raisable(num_flights, num_boats + 1, num_teams, num_heats)
    /\ Raisable(num_flights, num_boats, num_teams, num_heats + 1)

\* C10: the constraint set generate_schedule builds is satisfiable exactly
\* when numCompetitors <= numSlots * numSubRounds, whatever numRounds is, and
\* a solve that ends Optimal returns a schedule, not None.
C10_FeasibleIffCapacity ==
    /\ pc = "built" =>
         (Satisfiable(num_flights, num_boats, num_teams, num_heats)
            <=> num_teams <= num_boats * num_heats)
    /\ (pc = "done" /\ status = "Optimal") => ~result.none

C10_Witness ==
    /\ Returned
    /\ stop = "optimal"
    /\ num_flights >= 2
    /\ num_teams = num_boats * num_heats
    /\ num_teams >= 2
====
